---- MODULE Spec2Model ----
(***************************************************************************)
(* A model of the osho-lang front end: the lexer (src/src/main.rs), the    *)
(* recursive-descent parser (src/src/parser.rs), the semantic analyzer     *)
(* (src/src/semantic_analyzer.rs) and the code generator                   *)
(* (src/src/code_generator.rs).                                            *)
(*                                                                         *)
(* Source text is a sequence of one-character strings; every character of  *)
(* the modelled alphabet is ASCII, so a character's len_utf8() is 1 and a  *)
(* byte offset is a character offset.  An f64 is modelled as an exact      *)
(* rational <<n, d>> in lowest terms with d > 0, extended by <<1, 0>>      *)
(* (+inf), <<-1, 0>> (-inf) and <<0, 0>> (NaN); rounding, overflow and the *)
(* sign of zero are not modelled.  A Rust panic is the outcome "panic".    *)
(***************************************************************************)
EXTENDS Integers, Sequences, FiniteSets, TLC

VARIABLES
    source,       \* Lexer.source
    current_pos,  \* Lexer.current_pos (Lexer.chars is source[current_pos..])
    tokens,       \* the Vec<Token> built by Lexer::get_tokens, then Parser.tokens
    lexState,     \* "run" | "done" | "panic": position of get_tokens
    current,      \* Parser.current
    statements,   \* the Vec<ASTNode> built by Parser::parse
    parseState,   \* "run" | "ok" | "err" | "panic": position of Parser::parse
    parseErr,     \* the Err(message) of Parser::parse
    variables,    \* SemanticAnalyzer.variables
    output,       \* the values written by println! in analyze (Print)
    anIdx,        \* number of statements the Program loop of analyze has taken
    anState,      \* "run" | "ok" | "err": position of SemanticAnalyzer::analyze
    anErr,        \* the Err(message) of SemanticAnalyzer::analyze
    passes,       \* result and output of each earlier analyze call on this analyzer
    full_code     \* the Ok(full_code) of CodeGenerator::generate, <<>> before it

vars == <<source, current_pos, tokens, lexState, current, statements, parseState,
          parseErr, variables, output, anIdx, anState, anErr, passes, full_code>>

lexVars == <<source, current_pos, tokens, lexState>>
parseVars == <<current, statements, parseState, parseErr>>
anVars == <<variables, output, anIdx, anState, anErr, passes>>

(***************************************************************************)
(* f64 arithmetic on extended rationals.                                   *)
(***************************************************************************)
Abs(n) == IF n < 0 THEN -n ELSE n

Sgn(n) == IF n < 0 THEN -1 ELSE IF n > 0 THEN 1 ELSE 0

RECURSIVE Gcd(_, _)
Gcd(a, b) == IF b = 0 THEN a ELSE Gcd(b, a % b)

\* n/d with d > 0, in lowest terms
Norm(n, d) == LET g == Gcd(Abs(n), d) IN <<n \div g, d \div g>>

NaN == <<0, 0>>

IsNaN(a) == a = NaN

IsInf(a) == a[2] = 0 /\ a[1] # 0

F(n) == <<n, 1>>

FAdd(a, b) ==
    IF IsNaN(a) \/ IsNaN(b) THEN NaN
    ELSE IF IsInf(a) /\ IsInf(b) THEN (IF a = b THEN a ELSE NaN)
    ELSE IF IsInf(a) THEN a
    ELSE IF IsInf(b) THEN b
    ELSE Norm(a[1] * b[2] + b[1] * a[2], a[2] * b[2])

FSub(a, b) == FAdd(a, <<-b[1], b[2]>>)

FMul(a, b) ==
    IF IsNaN(a) \/ IsNaN(b) THEN NaN
    ELSE IF IsInf(a) \/ IsInf(b)
         THEN (IF a[1] = 0 \/ b[1] = 0 THEN NaN ELSE <<Sgn(a[1]) * Sgn(b[1]), 0>>)
    ELSE Norm(a[1] * b[1], a[2] * b[2])

FDiv(a, b) ==
    IF IsNaN(a) \/ IsNaN(b) THEN NaN
    ELSE IF IsInf(a) /\ IsInf(b) THEN NaN
    ELSE IF IsInf(a) THEN <<Sgn(a[1]) * (IF b[1] < 0 THEN -1 ELSE 1), 0>>
    ELSE IF IsInf(b) THEN F(0)
    ELSE IF b[1] = 0 THEN (IF a[1] = 0 THEN NaN ELSE <<Sgn(a[1]), 0>>)
    ELSE Norm(a[1] * b[2] * Sgn(b[1]), a[2] * Abs(b[1]))

(***************************************************************************)
(* Characters.                                                             *)
(***************************************************************************)
DigitSeq == <<"0", "1", "2", "3", "4", "5", "6", "7", "8", "9">>

\* char::is_numeric / char::is_digit(10) on the ASCII alphabet
Digits == {DigitSeq[i] : i \in 1..10}

DigitVal(c) == (CHOOSE i \in 1..10 : DigitSeq[i] = c) - 1

\* char::is_alphabetic on the ASCII alphabet
Letters == {"a", "b", "c", "d", "e", "f", "g", "h", "i", "j", "k", "l", "m",
            "n", "o", "p", "q", "r", "s", "t", "u", "v", "w", "x", "y", "z"}

\* char::is_whitespace on the ASCII alphabet
WhiteSpaceChars == {" ", "\n", "\t"}

\* source[a..b], byte offsets, for a <= b <= len
Slice(src, a, b) == SubSeq(src, a + 1, b)

(***************************************************************************)
(* Lexer (src/src/main.rs).                                                *)
(***************************************************************************)
Tok(kind, start, end, value) ==
    [kind |-> kind, start |-> start, end |-> end, value |-> value]

TVNone == [tag |-> "None"]

TVNumber(num) == [tag |-> "Number", num |-> num]

TVString(str) == [tag |-> "String", str |-> str]

\* Lexer::peek at offset pos: the next character, or "" for None
LexPeek(src, pos) == IF pos < Len(src) THEN src[pos + 1] ELSE ""

\* pos is the offset after the first '+'
handle_plus(src, pos) ==
    IF LexPeek(src, pos) = "+" THEN [kind |-> "Increment", pos |-> pos + 1]
    ELSE [kind |-> "Plus", pos |-> pos]

handle_minus(src, pos) ==
    IF LexPeek(src, pos) = "-" THEN [kind |-> "Decrement", pos |-> pos + 1]
    ELSE [kind |-> "Minus", pos |-> pos]

\* the offset after the longest run of characters of cs that starts at pos
RECURSIVE SkipWhile(_, _, _)
SkipWhile(src, pos, cs) ==
    IF LexPeek(src, pos) \in cs THEN SkipWhile(src, pos + 1, cs) ELSE pos

read_number(src, pos) ==
    [kind |-> "Number", pos |-> SkipWhile(src, pos, Digits \cup {"."})]

\* consumes up to and including the closing quote, or to the end of input
RECURSIVE read_string(_, _)
read_string(src, pos) ==
    IF pos >= Len(src) THEN [kind |-> "String", pos |-> pos]
    ELSE IF src[pos + 1] = "\"" THEN [kind |-> "String", pos |-> pos + 1]
    ELSE read_string(src, pos + 1)

match_keyword(ident) ==
    IF ident = <<"p", "r", "i", "n", "t">> THEN "Print"
    ELSE IF ident = <<"c", "o", "n", "s", "t">> THEN "Const"
    ELSE "Identifier"

\* pos is the offset after the initial character
read_identifier_or_keyword(src, pos) ==
    LET end == SkipWhile(src, pos, Letters \cup Digits \cup {"_"})
    IN  [kind |-> match_keyword(Slice(src, pos - 1, end)), pos |-> end]

\* the while-let loop: an unrecognized character is reported and skipped
RECURSIVE read_next_kind(_, _)
read_next_kind(src, pos) ==
    IF pos >= Len(src) THEN [kind |-> "Eof", pos |-> pos]
    ELSE LET c == src[pos + 1]
             p == pos + 1
         IN  IF c = "+" THEN handle_plus(src, p)
             ELSE IF c = "-" THEN handle_minus(src, p)
             ELSE IF c = "=" THEN [kind |-> "EqualsTo", pos |-> p]
             ELSE IF c = "(" THEN [kind |-> "OpenParen", pos |-> p]
             ELSE IF c = ")" THEN [kind |-> "CloseParen", pos |-> p]
             ELSE IF c = "\"" THEN read_string(src, p)
             ELSE IF c \in Digits THEN read_number(src, p)
             ELSE IF c \in Letters THEN read_identifier_or_keyword(src, p)
             ELSE IF c \in WhiteSpaceChars THEN [kind |-> "WhiteSpace", pos |-> p]
             ELSE read_next_kind(src, p)

\* the digits of text, most significant first, as a natural number
RECURSIVE DigitsToNat(_)
DigitsToNat(text) ==
    IF text = <<>> THEN 0
    ELSE 10 * DigitsToNat(SubSeq(text, 1, Len(text) - 1)) + DigitVal(text[Len(text)])

RECURSIVE Pow10(_)
Pow10(k) == IF k = 0 THEN 1 ELSE 10 * Pow10(k - 1)

\* the Err of str::parse::<f64>
NoF64 == <<>>

\* str::parse::<f64> on a text of the lexer: digits with at most one dot and at
\* least one digit parse; anything else is Err
ParseF64(text) ==
    LET dots == {i \in 1..Len(text) : text[i] = "."}
        digs == {i \in 1..Len(text) : text[i] \in Digits}
    IN  IF dots \cup digs # 1..Len(text) \/ Cardinality(dots) > 1 \/ digs = {}
        THEN NoF64
        ELSE LET d == IF dots = {} THEN Len(text) + 1 ELSE CHOOSE i \in dots : TRUE
                 int == SubSeq(text, 1, d - 1)
                 frac == SubSeq(text, d + 1, Len(text))
             IN  Norm(DigitsToNat(int \o frac), Pow10(Len(frac)))

\* the outcome of a panic inside extract_value
TVPanic == [tag |-> "panic"]

\* panics where the slice source[start + 1..end - 1] has begin > end
extract_value(src, kind, start, end) ==
    IF kind = "Number"
    THEN (IF ParseF64(Slice(src, start, end)) = NoF64 THEN TVNone
          ELSE TVNumber(ParseF64(Slice(src, start, end))))
    ELSE IF kind = "Identifier" THEN TVString(Slice(src, start, end))
    ELSE IF kind = "String"
    THEN (IF start + 1 > end - 1 THEN TVPanic
          ELSE TVString(Slice(src, start + 1, end - 1)))
    ELSE TVNone

\* a Token; its value is TVPanic where extract_value panics
read_next_token(src, pos) ==
    LET k == read_next_kind(src, pos)
    IN  Tok(k.kind, pos, k.pos, extract_value(src, k.kind, pos, k.pos))

(***************************************************************************)
(* AST (src/src/parser.rs, ASTNode and BinaryOperator).                    *)
(***************************************************************************)
NumberNode(num) == [type |-> "Number", num |-> num]

IdentifierNode(name) == [type |-> "Identifier", name |-> name]

BinaryOpNode(left, op, right) ==
    [type |-> "BinaryOp", left |-> left, op |-> op, right |-> right]

LetDeclarationNode(name, value) ==
    [type |-> "LetDeclaration", name |-> name, value |-> value]

AssignmentNode(name, value) == [type |-> "Assignment", name |-> name, value |-> value]

IncrementNode(name) == [type |-> "Increment", name |-> name]

DecrementNode(name) == [type |-> "Decrement", name |-> name]

PrintNode(expr) == [type |-> "Print", expr |-> expr]

(***************************************************************************)
(* Parser (src/src/parser.rs).  A parsing function takes the token slice   *)
(* and Parser.current and gives Ok(node), Err(message) or a panic, with    *)
(* the value of Parser.current it leaves.                                  *)
(***************************************************************************)
POk(node, cur) == [st |-> "ok", node |-> node, cur |-> cur]

PErr(msg, cur) == [st |-> "err", msg |-> msg, cur |-> cur]

PPanic == [st |-> "panic"]

\* &self.tokens[self.current]
ParserPeek(toks, cur) == toks[cur + 1]

is_at_end(toks, cur) == ParserPeek(toks, cur).kind = "Eof"

check(toks, cur, kind) == ~is_at_end(toks, cur) /\ ParserPeek(toks, cur).kind = kind

\* Ok(name) or Err("Expected string")
token_to_string(token, cur) ==
    IF token.value.tag = "String" THEN POk(token.value.str, cur)
    ELSE PErr("Expected string", cur)

\* the ? operator: the value of e is computed once; an Err or a panic is
\* returned as it is, an Ok goes on with K
Try(e, K(_)) == CHOOSE v \in {IF r.st = "ok" THEN K(r) ELSE r : r \in {e}} : TRUE

\* a node built from the name of a token, or the Err of token_to_string
Named(token, cur, Build(_)) ==
    Try(token_to_string(token, cur), LAMBDA n : POk(Build(n.node), cur))

OperatorOf(kind) ==
    CASE kind = "Plus" -> "Plus"
      [] kind = "Minus" -> "Minus"
      [] kind = "Multiply" -> "Multiply"
      [] kind = "Divide" -> "Divide"
      [] OTHER -> "None"

RECURSIVE primary(_, _), arithmetic(_, _), ArithmeticLoop(_, _, _)

expression(toks, cur) == arithmetic(toks, cur)

\* the OpenParen branch, after the inner expression r: dbg! indexes
\* tokens[current + 1] before consume looks at tokens[current]
CloseParenAfter(toks, r) ==
    IF r.cur + 1 >= Len(toks) THEN PPanic
    ELSE IF check(toks, r.cur, "CloseParen") THEN POk(r.node, r.cur + 1)
    ELSE PErr("Expected ')' after expression", r.cur)

\* previous() is tokens[current - 1]: with current = 0 the subtraction
\* overflows (debug build) or the index usize::MAX is out of bounds (release
\* build), a panic in both
primary(toks, cur) ==
    IF cur = 0 THEN PPanic
    ELSE LET prev_token == toks[cur]
             next == toks[cur + 1]
         IN  IF check(toks, cur, "Number")
             THEN (IF next.value.tag = "Number"
                   THEN POk(NumberNode(next.value.num), cur + 1)
                   ELSE PErr("Expected number", cur + 1))
             ELSE IF check(toks, cur, "Identifier")
             THEN Named(next, cur + 1, IdentifierNode)
             ELSE IF check(toks, cur, "EqualsTo")
             THEN Try(expression(toks, cur + 1),
                      LAMBDA r : Named(prev_token, r.cur,
                                       LAMBDA name : AssignmentNode(name, r.node)))
             ELSE IF check(toks, cur, "OpenParen")
             THEN Try(expression(toks, cur + 1), LAMBDA r : CloseParenAfter(toks, r))
             ELSE IF check(toks, cur, "Increment")
             THEN Named(prev_token, cur + 1, IncrementNode)
             ELSE IF check(toks, cur, "Decrement")
             THEN Named(prev_token, cur + 1, DecrementNode)
             ELSE PErr("Expected expression", cur)

\* the while-let loop of arithmetic, node being the expression so far
ArithmeticLoop(toks, node, cur) ==
    LET op == IF is_at_end(toks, cur) THEN "None"
              ELSE OperatorOf(ParserPeek(toks, cur).kind)
    IN  IF op = "None" THEN POk(node, cur)
        ELSE Try(primary(toks, cur + 1),
                 LAMBDA right :
                    ArithmeticLoop(toks, BinaryOpNode(node, op, right.node), right.cur))

arithmetic(toks, cur) ==
    Try(primary(toks, cur), LAMBDA node : ArithmeticLoop(toks, node.node, node.cur))

\* the checks of expression_statement after its expression
AfterExpression(toks, expr) ==
    IF check(toks, expr.cur, "Increment")
    THEN (IF expr.node.type = "Identifier"
          THEN POk(IncrementNode(expr.node.name), expr.cur + 1)
          ELSE PErr("Expected identifier before '++'", expr.cur + 1))
    ELSE IF check(toks, expr.cur, "Minus")
    THEN (IF check(toks, expr.cur + 1, "Minus")
          THEN (IF expr.node.type = "Identifier"
                THEN POk(DecrementNode(expr.node.name), expr.cur + 2)
                ELSE PErr("Expected identifier before '--'", expr.cur + 2))
          ELSE POk(expr.node, expr.cur + 1))
    ELSE POk(expr.node, expr.cur)

expression_statement(toks, cur) ==
    Try(expression(toks, cur), LAMBDA expr : AfterExpression(toks, expr))

print_statement(toks, cur) ==
    Try(expression(toks, cur), LAMBDA expr : POk(PrintNode(expr.node), expr.cur))

statement(toks, cur) ==
    IF check(toks, cur, "Print") THEN print_statement(toks, cur + 1)
    ELSE expression_statement(toks, cur)

let_declaration(toks, cur) ==
    IF ~check(toks, cur, "Identifier")
    THEN PErr("Expected identifier after 'let'", cur)
    ELSE IF ~check(toks, cur + 1, "EqualsTo")
    THEN PErr("Expected '=' after let declaration", cur + 1)
    ELSE Try(expression(toks, cur + 2),
             LAMBDA value : Named(ParserPeek(toks, cur), value.cur,
                                  LAMBDA name : LetDeclarationNode(name, value.node)))

declaration(toks, cur) ==
    IF check(toks, cur, "Let") THEN let_declaration(toks, cur + 1)
    ELSE IF check(toks, cur, "Identifier") THEN statement(toks, cur + 1)
    ELSE statement(toks, cur)

(***************************************************************************)
(* Semantic analyzer (src/src/semantic_analyzer.rs).  The symbol table is  *)
(* a function from the declared names to their values; an error message is *)
(* the tuple of its parts.                                                 *)
(***************************************************************************)
AlreadyDeclared(name) == <<"Variable '", name, "' is already declared">>

NotDeclared(name) == <<"Variable '", name, "' is not declared">>

UnexpectedNode == <<"Unexpected AST node">>

UnexpectedExpression == <<"Unexpected expression node">>

EOk(val) == [st |-> "ok", val |-> val]

EErr(msg) == [st |-> "err", msg |-> msg]

ApplyOp(op, l, r) ==
    CASE op = "Plus" -> FAdd(l, r)
      [] op = "Minus" -> FSub(l, r)
      [] op = "Divide" -> FDiv(l, r)
      [] op = "Multiply" -> FMul(l, r)

RECURSIVE evaluate_expression(_, _)
evaluate_expression(table, expr) ==
    CASE expr.type = "Number" -> EOk(expr.num)
      [] expr.type = "Identifier" ->
            IF expr.name \in DOMAIN table THEN EOk(table[expr.name])
            ELSE EErr(NotDeclared(expr.name))
      [] expr.type = "BinaryOp" ->
            LET left_val == evaluate_expression(table, expr.left)
                right_val == evaluate_expression(table, expr.right)
            IN  IF left_val.st # "ok" THEN left_val
                ELSE IF right_val.st # "ok" THEN right_val
                ELSE EOk(ApplyOp(expr.op, left_val.val, right_val.val))
      [] OTHER -> EErr(UnexpectedExpression)

\* HashMap::insert
Insert(table, name, val) ==
    [n \in DOMAIN table \cup {name} |-> IF n = name THEN val ELSE table[n]]

\* the result of analyze on one statement: Ok(()) or Err(message), the table
\* it leaves and the values it prints
AOk(table, printed) == [st |-> "ok", table |-> table, printed |-> printed]

AErr(msg, table) == [st |-> "err", msg |-> msg, table |-> table, printed |-> <<>>]

\* analyze_LetDeclaration with the value evaluated before the name is checked
analyze_LetDeclaration_ValueFirst(table, node) ==
    LET val == evaluate_expression(table, node.value)
    IN  IF val.st # "ok" THEN AErr(val.msg, table)
        ELSE IF node.name \in DOMAIN table THEN AErr(AlreadyDeclared(node.name), table)
        ELSE AOk(Insert(table, node.name, val.val), <<>>)

analyze_LetDeclaration(table, node) ==
    IF node.name \in DOMAIN table THEN AErr(AlreadyDeclared(node.name), table)
    ELSE LET val == evaluate_expression(table, node.value)
         IN  IF val.st # "ok" THEN AErr(val.msg, table)
             ELSE AOk(Insert(table, node.name, val.val), <<>>)

analyze_Assignment(table, node) ==
    IF node.name \notin DOMAIN table THEN AErr(NotDeclared(node.name), table)
    ELSE LET val == evaluate_expression(table, node.value)
         IN  IF val.st # "ok" THEN AErr(val.msg, table)
             ELSE AOk(Insert(table, node.name, val.val), <<>>)

analyze_Increment(table, node) ==
    IF node.name \in DOMAIN table
    THEN AOk([table EXCEPT ![node.name] = FAdd(@, F(1))], <<>>)
    ELSE AErr(NotDeclared(node.name), table)

\* analyze_Decrement with the += of the Increment arm copied into it
analyze_Decrement_Adding(table, node) ==
    IF node.name \in DOMAIN table
    THEN AOk([table EXCEPT ![node.name] = FAdd(@, F(1))], <<>>)
    ELSE AErr(NotDeclared(node.name), table)

analyze_Decrement(table, node) ==
    IF node.name \in DOMAIN table
    THEN AOk([table EXCEPT ![node.name] = FSub(@, F(1))], <<>>)
    ELSE AErr(NotDeclared(node.name), table)

analyze_Print(table, node) ==
    LET val == evaluate_expression(table, node.expr)
    IN  IF val.st # "ok" THEN AErr(val.msg, table) ELSE AOk(table, <<val.val>>)

\* analyze on a statement of a Program
analyze(table, node) ==
    CASE node.type = "LetDeclaration" -> analyze_LetDeclaration(table, node)
      [] node.type = "Assignment" -> analyze_Assignment(table, node)
      [] node.type = "Increment" -> analyze_Increment(table, node)
      [] node.type = "Decrement" -> analyze_Decrement(table, node)
      [] node.type = "Print" -> analyze_Print(table, node)
      [] OTHER -> AErr(UnexpectedNode, table)

(***************************************************************************)
(* Code generator (src/src/code_generator.rs).  The emitted text is the    *)
(* sequence of its C tokens: a symbol, an identifier or a numeric literal  *)
(* with its text.                                                          *)
(***************************************************************************)
CSym(s) == [t |-> "sym", s |-> s]

CId(name) == [t |-> "id", name |-> name]

CNum(text) == [t |-> "num", text |-> text]

\* the decimal digits of a natural number
RECURSIVE NatDigits(_)
NatDigits(n) ==
    IF n < 10 THEN <<DigitSeq[n + 1]>>
    ELSE NatDigits(n \div 10) \o <<DigitSeq[(n % 10) + 1]>>

\* the decimal digits of r/d, 0 <= r < d, d a divisor of a power of ten
RECURSIVE FracDigits(_, _)
FracDigits(r, d) ==
    IF r = 0 THEN <<>>
    ELSE <<DigitSeq[((r * 10) \div d) + 1]>> \o FracDigits((r * 10) % d, d)

\* the Number arm of visit: format!("{:.1}", num) where num.fract() == 0.0,
\* num.to_string() otherwise; num finite and with a finite decimal expansion
FormatNumber(num) ==
    LET sign == IF num[1] < 0 THEN <<"-">> ELSE <<>>
        n == Abs(num[1])
    IN  IF num[2] = 1 THEN sign \o NatDigits(n) \o <<".", "0">>
        ELSE sign \o NatDigits(n \div num[2]) \o <<".">> \o FracDigits(n % num[2], num[2])

OperatorText(op) ==
    CASE op = "Plus" -> "+"
      [] op = "Minus" -> "-"
      [] op = "Multiply" -> "*"
      [] op = "Divide" -> "/"

RECURSIVE visit(_)
visit(node) ==
    CASE node.type = "LetDeclaration" ->
            <<CSym("double"), CId(node.name), CSym("=")>> \o visit(node.value)
                \o <<CSym(";")>>
      [] node.type = "Assignment" ->
            <<CId(node.name), CSym("=")>> \o visit(node.value) \o <<CSym(";")>>
      [] node.type = "Increment" -> <<CId(node.name), CSym("++"), CSym(";")>>
      [] node.type = "Decrement" -> <<CId(node.name), CSym("--"), CSym(";")>>
      [] node.type = "Print" ->
            <<CSym("printf"), CSym("("), CSym("\"%f\\n\""), CSym(",")>>
                \o visit(node.expr) \o <<CSym(")"), CSym(";")>>
      [] node.type = "BinaryOp" ->
            <<CSym("(")>> \o visit(node.left) \o <<CSym(OperatorText(node.op))>>
                \o visit(node.right) \o <<CSym(")")>>
      [] node.type = "Number" -> <<CNum(FormatNumber(node.num))>>
      [] node.type = "Identifier" -> <<CId(node.name)>>

\* the Program arm of visit
RECURSIVE visit_Program(_)
visit_Program(stmts) ==
    IF stmts = <<>> THEN <<>> ELSE visit(Head(stmts)) \o visit_Program(Tail(stmts))

MainHeader ==
    <<CSym("#include <stdio.h>"), CSym("int"), CSym("main"), CSym("("), CSym(")"),
      CSym("{")>>

MainFooter == <<CSym("return"), CSym("0"), CSym(";"), CSym("}")>>

wrap_with_main(body) == MainHeader \o body \o MainFooter

\* the Ok(full_code) of generate on Program(stmts)
generate(stmts) == wrap_with_main(visit_Program(stmts))

(***************************************************************************)
(* The meaning in C of the text the code generator emits: a literal with a *)
(* dot is a double, one without is an int; * and / bind tighter than + and *)
(* -; int / int truncates; a double variable converts what it is assigned. *)
(* A run gives the values printf writes, "error" where the text does not   *)
(* compile and "ub" where its behaviour is undefined.                      *)
(***************************************************************************)
CVal(ty, v) == [st |-> "ok", ty |-> ty, v |-> v]

CFail(st) == [st |-> st]

CLiteral(text) ==
    IF ParseF64(text) = NoF64 THEN CFail("error")
    ELSE IF \E i \in 1..Len(text) : text[i] = "." THEN CVal("double", ParseF64(text))
    ELSE CVal("int", ParseF64(text))

\* truncation toward zero of the finite rational a
Trunc(a) == F(Sgn(a[1]) * (Abs(a[1]) \div a[2]))

CApply(sym, a, b) ==
    IF a.ty = "int" /\ b.ty = "int"
    THEN CASE sym = "+" -> CVal("int", FAdd(a.v, b.v))
           [] sym = "-" -> CVal("int", FSub(a.v, b.v))
           [] sym = "*" -> CVal("int", FMul(a.v, b.v))
           [] sym = "/" -> IF b.v[1] = 0 THEN CFail("ub")
                           ELSE CVal("int", Trunc(FDiv(a.v, b.v)))
    ELSE CASE sym = "+" -> CVal("double", FAdd(a.v, b.v))
           [] sym = "-" -> CVal("double", FSub(a.v, b.v))
           [] sym = "*" -> CVal("double", FMul(a.v, b.v))
           [] sym = "/" -> CVal("double", FDiv(a.v, b.v))

IsSym(c, pos, syms) == pos <= Len(c) /\ c[pos].t = "sym" /\ c[pos].s \in syms

\* an expression result: a CVal with the position after it, or a CFail
At(r, pos) ==
    IF r.st = "ok" THEN [st |-> "ok", ty |-> r.ty, v |-> r.v, pos |-> pos] ELSE r

RECURSIVE CPrimary(_, _, _), CMultiplicative(_, _, _), CAdditive(_, _, _),
          CLoop(_, _, _, _, _)

CPrimary(c, pos, env) ==
    IF pos > Len(c) THEN CFail("error")
    ELSE IF c[pos].t = "num" THEN At(CLiteral(c[pos].text), pos + 1)
    ELSE IF c[pos].t = "id"
    THEN (IF c[pos].name \in DOMAIN env
          THEN At(CVal("double", env[c[pos].name]), pos + 1)
          ELSE CFail("error"))
    ELSE IF c[pos].s = "("
    THEN LET r == CAdditive(c, pos + 1, env)
         IN  IF r.st # "ok" THEN r
             ELSE IF IsSym(c, r.pos, {")"}) THEN At(r, r.pos + 1)
             ELSE CFail("error")
    ELSE CFail("error")

\* left-associative operators of one precedence level: additive is the level
\* of + and -, whose operands are multiplicative expressions
CLoop(c, left, env, additive, syms) ==
    IF ~IsSym(c, left.pos, syms) THEN left
    ELSE LET right == IF additive THEN CMultiplicative(c, left.pos + 1, env)
                      ELSE CPrimary(c, left.pos + 1, env)
         IN  IF right.st # "ok" THEN right
             ELSE LET v == CApply(c[left.pos].s, left, right)
                  IN  IF v.st # "ok" THEN v
                      ELSE CLoop(c, At(v, right.pos), env, additive, syms)

CMultiplicative(c, pos, env) ==
    LET l == CPrimary(c, pos, env)
    IN  IF l.st # "ok" THEN l ELSE CLoop(c, l, env, FALSE, {"*", "/"})

CAdditive(c, pos, env) ==
    LET l == CMultiplicative(c, pos, env)
    IN  IF l.st # "ok" THEN l ELSE CLoop(c, l, env, TRUE, {"+", "-"})

CDone(st, out) == [st |-> st, out |-> out]

\* the statements from position pos, with the doubles env and the values
\* printed so far
RECURSIVE CRun(_, _, _, _)
CRun(c, pos, env, out) ==
    IF IsSym(c, pos, {"return"}) THEN CDone("ok", out)
    ELSE IF IsSym(c, pos, {"double"})
    THEN (IF pos + 2 > Len(c) \/ c[pos + 1].t # "id" \/ ~IsSym(c, pos + 2, {"="})
            \/ c[pos + 1].name \in DOMAIN env
          THEN CDone("error", <<>>)
          ELSE LET r == CAdditive(c, pos + 3, env)
               IN  IF r.st # "ok" THEN CDone(r.st, <<>>)
                   ELSE IF ~IsSym(c, r.pos, {";"}) THEN CDone("error", <<>>)
                   ELSE CRun(c, r.pos + 1, Insert(env, c[pos + 1].name, r.v), out))
    ELSE IF IsSym(c, pos, {"printf"})
    THEN (IF ~(IsSym(c, pos + 1, {"("}) /\ IsSym(c, pos + 2, {"\"%f\\n\""})
               /\ IsSym(c, pos + 3, {","}))
          THEN CDone("error", <<>>)
          ELSE LET r == CAdditive(c, pos + 4, env)
               IN  IF r.st # "ok" THEN CDone(r.st, <<>>)
                   ELSE IF ~(IsSym(c, r.pos, {")"}) /\ IsSym(c, r.pos + 1, {";"}))
                   THEN CDone("error", <<>>)
                   ELSE IF r.ty # "double" THEN CDone("ub", <<>>)
                   ELSE CRun(c, r.pos + 2, env, Append(out, r.v)))
    ELSE IF pos <= Len(c) /\ c[pos].t = "id" /\ c[pos].name \in DOMAIN env
    THEN (IF IsSym(c, pos + 1, {"="})
          THEN LET r == CAdditive(c, pos + 2, env)
               IN  IF r.st # "ok" THEN CDone(r.st, <<>>)
                   ELSE IF ~IsSym(c, r.pos, {";"}) THEN CDone("error", <<>>)
                   ELSE CRun(c, r.pos + 1, Insert(env, c[pos].name, r.v), out)
          ELSE IF IsSym(c, pos + 1, {"++", "--"}) /\ IsSym(c, pos + 2, {";"})
          THEN CRun(c, pos + 3,
                    Insert(env, c[pos].name,
                           IF c[pos + 1].s = "++" THEN FAdd(env[c[pos].name], F(1))
                           ELSE FSub(env[c[pos].name], F(1))),
                    out)
          ELSE CDone("error", <<>>))
    ELSE CDone("error", <<>>)

\* names the code generator can emit as identifiers that C reserves as
\* keywords (two of them: no identifier of the text may be one)
CReserved == {<<"d", "o">>, <<"i", "f">>}

\* compiling and running the emitted program
ExecC(c) ==
    IF Len(c) < Len(MainHeader) \/ SubSeq(c, 1, Len(MainHeader)) # MainHeader
    THEN CDone("error", <<>>)
    ELSE IF \E i \in 1..Len(c) : c[i].t = "id" /\ c[i].name \in CReserved
    THEN CDone("error", <<>>)
    ELSE CRun(c, Len(MainHeader) + 1, <<>>, <<>>)

(***************************************************************************)
(* Bounds and inputs.                                                      *)
(***************************************************************************)
\* longest source text enumerated character by character
MaxLen == 3

\* longest run of freely chosen tokens in a token sequence
MaxToks == 2

\* largest whole number literal of a hand-built Program
MaxNum == 1

\* number of analyze calls on one SemanticAnalyzer value
MaxPasses == 2

\* all sequences over S of length at most n
SeqsUpTo(S, n) == UNION {[1..k -> S] : k \in 0..n}

SrcChars == {"x", "2", ".", "+", "-", "=", "(", ")", "\"", " ", "*"}

KwLet == <<"l", "e", "t">>

KwPrint == <<"p", "r", "i", "n", "t">>

\* let x = a \n let y = b \n print (x + y)
LetLetPrint(a, b) ==
    KwLet \o <<" ", "x", " ", "=", " ", a, "\n">>
        \o KwLet \o <<" ", "y", " ", "=", " ", b, "\n">>
        \o KwPrint \o <<" ", "(", "x", " ", "+", " ", "y", ")">>

\* print a op1 b op2 c
PrintChain(a, op1, b, op2, c) ==
    KwPrint \o <<" ", a, " ", op1, " ", b, " ", op2, " ", c>>

\* print 2.2.2: a Number token whose text has two dots
BadLiteral == KwPrint \o <<" ", "2", ".", "2", ".", "2">>

ScenarioDigits == {"2", "3", "4"}

OperatorChars == {"+", "-", "*", "/"}

Sources ==
    SeqsUpTo(SrcChars, MaxLen)
        \cup {BadLiteral}
        \cup {LetLetPrint(a, b) : a, b \in ScenarioDigits}
        \cup {PrintChain(a, op1, b, op2, c) :
                a, b, c \in ScenarioDigits, op1, op2 \in OperatorChars}

Names == {<<"x">>, <<"y">>}

\* a token as a caller of Parser::new builds it; the parser reads no offsets
T(kind) == Tok(kind, 0, 0, TVNone)

TIdent(name) == Tok("Identifier", 0, 0, TVString(name))

TNumber(n) == Tok("Number", 0, 0, TVNumber(F(n)))

FreeTokens ==
    {T(k) : k \in {"Let", "Print", "Number", "EqualsTo", "Plus", "Minus", "Multiply",
                   "Divide", "OpenParen", "CloseParen", "Increment", "Decrement",
                   "Const"}}
        \cup {TIdent(n) : n \in Names}
        \cup {TNumber(1), Tok("String", 0, 0, TVString(<<"s">>))}

LetTokens(name, n) == <<T("Let"), TIdent(name), T("EqualsTo"), TNumber(n)>>

TokenPrefixes ==
    {<<>>, LetTokens(<<"x">>, 5), LetTokens(<<"x">>, 5) \o LetTokens(<<"y">>, 2)}

TokenSuffixes == {<<>>, <<T("Print"), TIdent(<<"x">>)>>, <<T("Minus"), T("Minus")>>}

TokenInputs ==
    {p \o m \o t \o <<T("Eof")>> :
        p \in TokenPrefixes, m \in SeqsUpTo(FreeTokens, MaxToks), t \in TokenSuffixes}

Operators == {"Plus", "Minus", "Multiply", "Divide"}

X == IdentifierNode(<<"x">>)

Y == IdentifierNode(<<"y">>)

\* a name the lexer reads as an Identifier and C reads as a keyword
Do == IdentifierNode(<<"d", "o">>)

Leaves == {NumberNode(F(n)) : n \in 0..MaxNum} \cup {NumberNode(<<1, 2>>), X, Y}

\* the expressions of depth at most one, and those of depth two over x, 2 and y
Expressions ==
    Leaves
        \cup {BinaryOpNode(l, op, r) : l, r \in Leaves, op \in Operators}
        \cup {BinaryOpNode(BinaryOpNode(X, op1, NumberNode(F(2))), op2, Y) :
                op1, op2 \in Operators}
        \cup {BinaryOpNode(X, op1, BinaryOpNode(NumberNode(F(2)), op2, Y)) :
                op1, op2 \in Operators}

\* every statement kind analyze handles, a node that is no statement and a
\* Print of a node that is no expression
Statements ==
    {LetDeclarationNode(n, e) : n \in Names, e \in Expressions}
        \cup {AssignmentNode(n, e) : n \in Names, e \in Expressions}
        \cup {IncrementNode(n) : n \in Names}
        \cup {DecrementNode(n) : n \in Names}
        \cup {PrintNode(e) : e \in Expressions}
        \cup {X, PrintNode(IncrementNode(<<"x">>)),
              LetDeclarationNode(Do.name, NumberNode(F(1)))}

ProgramPrefixes ==
    {<<>>,
     <<LetDeclarationNode(<<"x">>, NumberNode(F(5)))>>,
     <<LetDeclarationNode(<<"x">>, NumberNode(F(5))),
       LetDeclarationNode(<<"y">>, NumberNode(F(3)))>>}

ProgramSuffixes ==
    {<<>>,
     <<PrintNode(X)>>,
     <<PrintNode(Y)>>,
     <<PrintNode(Do)>>,
     <<AssignmentNode(<<"x">>, BinaryOpNode(X, "Divide", NumberNode(F(2)))),
       PrintNode(BinaryOpNode(X, "Plus", X))>>}

Programs ==
    {p \o <<s>> \o t : p \in ProgramPrefixes, s \in Statements, t \in ProgramSuffixes}

(***************************************************************************)
(* The pipeline as a state machine.                                        *)
(***************************************************************************)
ParserStart == current = 0 /\ statements = <<>> /\ parseState = "run" /\ parseErr = ""

AnalyzerStart ==
    /\ variables = <<>> /\ output = <<>> /\ anIdx = 0 /\ anState = "run" /\ anErr = <<>>
    /\ passes = <<>>

\* Lexer::new(source), Parser::new(&tokens), SemanticAnalyzer::new()
Init ==
    /\ source \in Sources
    /\ current_pos = 0 /\ tokens = <<>> /\ lexState = "run"
    /\ ParserStart
    /\ AnalyzerStart
    /\ full_code = <<>>

\* Parser::new on a token sequence that ends with Eof
InitTokens ==
    /\ source = <<>> /\ current_pos = 0 /\ lexState = "done"
    /\ tokens \in TokenInputs
    /\ ParserStart
    /\ AnalyzerStart
    /\ full_code = <<>>

\* SemanticAnalyzer::new and CodeGenerator::new with a Program at hand
InitProgram ==
    /\ source = <<>> /\ current_pos = 0 /\ lexState = "done" /\ tokens = <<>>
    /\ current = 0 /\ parseState = "ok" /\ parseErr = ""
    /\ statements \in Programs
    /\ AnalyzerStart
    /\ full_code = <<>>

\* one turn of the loop of get_tokens
ReadNextToken ==
    /\ lexState = "run"
    /\ \E token \in {read_next_token(source, current_pos)} :
           IF token.value = TVPanic
           THEN lexState' = "panic" /\ UNCHANGED <<current_pos, tokens>>
           ELSE /\ current_pos' = token.end
                /\ tokens' = IF token.kind # "WhiteSpace" THEN Append(tokens, token)
                             ELSE tokens
                /\ lexState' = IF token.kind = "Eof" THEN "done" ELSE "run"
    /\ UNCHANGED <<source, parseVars, anVars, full_code>>

\* one turn of the loop of parse: statements.push(self.declaration()?)
ParseDeclaration ==
    /\ lexState = "done" /\ parseState = "run"
    /\ ~is_at_end(tokens, current)
    /\ \E r \in {declaration(tokens, current)} :
           CASE r.st = "ok" ->
                    /\ statements' = Append(statements, r.node)
                    /\ current' = r.cur
                    /\ UNCHANGED <<parseState, parseErr>>
             [] r.st = "err" ->
                    /\ parseState' = "err" /\ parseErr' = r.msg
                    /\ UNCHANGED <<current, statements>>
             [] r.st = "panic" ->
                    /\ parseState' = "panic"
                    /\ UNCHANGED <<current, statements, parseErr>>
    /\ UNCHANGED <<lexVars, anVars, full_code>>

\* the loop of parse ends: Ok(ASTNode::Program(statements))
ParseFinish ==
    /\ lexState = "done" /\ parseState = "run"
    /\ is_at_end(tokens, current)
    /\ parseState' = "ok"
    /\ UNCHANGED <<lexVars, current, statements, parseErr, anVars, full_code>>

\* AnalyzeStatement with the ? dropped: the Err of a statement is discarded
AnalyzeStatement_ErrDiscarded ==
    /\ parseState = "ok" /\ anState = "run"
    /\ anIdx < Len(statements)
    /\ \E r \in {analyze(variables, statements[anIdx + 1])} :
           /\ variables' = r.table
           /\ output' = output \o r.printed
           /\ anIdx' = anIdx + 1
           /\ UNCHANGED <<anState, anErr>>
    /\ UNCHANGED <<lexVars, parseVars, passes, full_code>>

\* one turn of the Program loop of analyze: self.analyze(stmt)?
AnalyzeStatement ==
    /\ parseState = "ok" /\ anState = "run"
    /\ anIdx < Len(statements)
    /\ \E r \in {analyze(variables, statements[anIdx + 1])} :
           IF r.st = "ok"
           THEN /\ variables' = r.table
                /\ output' = output \o r.printed
                /\ anIdx' = anIdx + 1
                /\ UNCHANGED <<anState, anErr>>
           ELSE /\ anState' = "err" /\ anErr' = r.msg
                /\ variables' = r.table
                /\ UNCHANGED <<output, anIdx>>
    /\ UNCHANGED <<lexVars, parseVars, passes, full_code>>

\* the Program loop of analyze ends: Ok(())
AnalyzeFinish ==
    /\ parseState = "ok" /\ anState = "run"
    /\ anIdx = Len(statements)
    /\ anState' = "ok"
    /\ UNCHANGED <<lexVars, parseVars, variables, output, anIdx, anErr, passes,
                   full_code>>

\* analyze is called once more on the same SemanticAnalyzer value with the
\* same Program: the field variables is what the last call left, output is
\* what this call prints
AnalyzeAgain ==
    /\ parseState = "ok" /\ anState \in {"ok", "err"}
    /\ Len(passes) + 1 < MaxPasses
    /\ passes' = Append(passes, [state |-> anState, err |-> anErr, output |-> output])
    /\ anIdx' = 0 /\ anState' = "run" /\ anErr' = <<>> /\ output' = <<>>
    /\ UNCHANGED <<lexVars, parseVars, variables, full_code>>

\* CodeGenerator::generate on the Program
Generate ==
    /\ parseState = "ok" /\ full_code = <<>>
    /\ full_code' = generate(statements)
    /\ UNCHANGED <<lexVars, parseVars, anVars>>

NextParser == ParseDeclaration \/ ParseFinish

NextAnalyzer == AnalyzeStatement \/ AnalyzeFinish

Next == ReadNextToken \/ NextParser \/ NextAnalyzer

\* source text through lexer, parser and analyzer
Spec == Init /\ [][Next]_vars

NextTokens == NextParser \/ NextAnalyzer

\* a token sequence through parser and analyzer
SpecTokens == InitTokens /\ [][NextTokens]_vars

NextProgram == NextAnalyzer \/ Generate

\* a Program through the analyzer and the code generator
SpecProgram == InitProgram /\ [][NextProgram]_vars

NextPasses == NextAnalyzer \/ AnalyzeAgain

\* a Program through several analyze calls on one SemanticAnalyzer value
SpecPasses == InitProgram /\ [][NextPasses]_vars

(***************************************************************************)
(* Properties.                                                             *)
(***************************************************************************)

\* C1: on a token sequence that ends with Eof, Parser::parse returns Ok or Err
\* and never aborts by indexing the token slice out of bounds.
C1_ParseNeverPanics == parseState # "panic"

\* the pipeline has nothing left to do: a stage failed or the analyzer returned
PipelineFinished ==
    \/ lexState = "panic"
    \/ lexState = "done" /\ parseState \in {"err", "panic"}
    \/ lexState = "done" /\ parseState = "ok" /\ anState \in {"ok", "err"}

\* C2: the pipeline on `let x = a`, `let y = b`, `print (x + y)` succeeds: both
\* lets are parsed into LetDeclaration nodes and the analyzer prints exactly
\* one value, a + b.
C2_LetLetPrintSum ==
    \A a, b \in ScenarioDigits :
        (source = LetLetPrint(a, b) /\ PipelineFinished) =>
            /\ parseState = "ok" /\ anState = "ok"
            /\ statements =
                 <<LetDeclarationNode(<<"x">>, NumberNode(F(DigitVal(a)))),
                   LetDeclarationNode(<<"y">>, NumberNode(F(DigitVal(b)))),
                   PrintNode(BinaryOpNode(X, "Plus", Y))>>
            /\ output = <<F(DigitVal(a) + DigitVal(b))>>

OperatorOfChar(c) ==
    CASE c = "+" -> "Plus"
      [] c = "-" -> "Minus"
      [] c = "*" -> "Multiply"
      [] c = "/" -> "Divide"

\* C3: binary operators have equal precedence and associate to the left: the
\* source `print a op1 b op2 c` is parsed to Print of BinaryOp(BinaryOp(a, op1,
\* b), op2, c) and prints (a op1 b) op2 c, so `print 2 + 3 * 4` prints 20.
C3_FlatLeftAssociative ==
    \A a, b, c \in ScenarioDigits, op1, op2 \in OperatorChars :
        (source = PrintChain(a, op1, b, op2, c) /\ PipelineFinished) =>
            LET na == F(DigitVal(a))
                nb == F(DigitVal(b))
                nc == F(DigitVal(c))
                o1 == OperatorOfChar(op1)
                o2 == OperatorOfChar(op2)
            IN  /\ parseState = "ok" /\ anState = "ok"
                /\ statements =
                     <<PrintNode(BinaryOpNode(
                         BinaryOpNode(NumberNode(na), o1, NumberNode(nb)),
                         o2, NumberNode(nc)))>>
                /\ output = <<ApplyOp(o2, ApplyOp(o1, na, nb), nc)>>
                /\ (a = "2" /\ op1 = "+" /\ b = "3" /\ op2 = "*" /\ c = "4"
                        => output = <<F(20)>>)

\* the source slices [start, end) of the tokens other than Eof, in order
RECURSIVE ConcatSlices(_, _)
ConcatSlices(src, toks) ==
    IF toks = <<>> THEN <<>>
    ELSE (IF Head(toks).kind = "Eof" THEN <<>>
          ELSE Slice(src, Head(toks).start, Head(toks).end))
            \o ConcatSlices(src, Tail(toks))

IsNotWhiteSpace(c) == c \notin WhiteSpaceChars

\* C4: the slices of the tokens the lexer returns, Eof left out, concatenated
\* in order, are exactly the non-whitespace characters of the input.
C4_SlicesReproduceInput ==
    lexState = "done" =>
        ConcatSlices(source, tokens) = SelectSeq(source, IsNotWhiteSpace)

\* C5: get_tokens returns, for every source text, a sequence whose last
\* element is its only Eof token and that holds no WhiteSpace token.
C5_OneEofNoWhiteSpace ==
    /\ lexState # "panic"
    /\ lexState = "run" => current_pos <= Len(source)
    /\ lexState = "done" =>
        /\ tokens # <<>>
        /\ tokens[Len(tokens)].kind = "Eof"
        /\ \A i \in 1..(Len(tokens) - 1) : tokens[i].kind \notin {"Eof", "WhiteSpace"}

\* the statement that starts at cur is `(`, then one operand, then a token that
\* neither closes the parenthesis nor continues the expression
UnclosedParenAt(toks, cur) ==
    /\ cur >= 1 /\ cur + 3 <= Len(toks)
    /\ toks[cur + 1].kind = "OpenParen"
    /\ \/ toks[cur + 2].kind = "Identifier" /\ toks[cur + 2].value.tag = "String"
       \/ toks[cur + 2].kind = "Number" /\ toks[cur + 2].value.tag = "Number"
    /\ toks[cur + 3].kind \notin {"CloseParen", "Plus", "Minus", "Multiply", "Divide"}

\* C10: when the parser has consumed `(` and the inner expression and the next
\* token is not `)`, parse returns the error "Expected ')' after expression",
\* also when the next token is Eof.
C10_MissingCloseParenIsError ==
    (parseState # "run" /\ UnclosedParenAt(tokens, current)) =>
        (parseState = "err" /\ parseErr = "Expected ')' after expression")

\* the names an expression reads
RECURSIVE Identifiers(_)
Identifiers(e) ==
    CASE e.type = "Identifier" -> {e.name}
      [] e.type = "BinaryOp" -> Identifiers(e.left) \cup Identifiers(e.right)
      [] OTHER -> {}

\* e is built from Number, Identifier and BinaryOp alone
RECURSIVE IsExpression(_)
IsExpression(e) ==
    CASE e.type \in {"Number", "Identifier"} -> TRUE
      [] e.type = "BinaryOp" -> IsExpression(e.left) /\ IsExpression(e.right)
      [] OTHER -> FALSE

\* a step of the analyzer on the statement at anIdx
AnalyzerTakesStatement ==
    parseState = "ok" /\ anState = "run" /\ anIdx < Len(statements) /\ anVars' # anVars

\* the expression the statement evaluates once its own name check has passed
EvaluatedBy(table, stmt) ==
    CASE stmt.type = "Print" -> {stmt.expr}
      [] stmt.type = "LetDeclaration" /\ stmt.name \notin DOMAIN table -> {stmt.value}
      [] stmt.type = "Assignment" /\ stmt.name \in DOMAIN table -> {stmt.value}
      [] OTHER -> {}

C6_Step ==
    AnalyzerTakesStatement =>
        LET stmt == statements[anIdx + 1]
        IN  /\ anState' = "err" => variables' = variables /\ output' = output
            /\ (stmt.type = "LetDeclaration" /\ stmt.name \in DOMAIN variables) =>
                  /\ anState' = "err"
                  /\ anErr' = <<"Variable '", stmt.name, "' is already declared">>
            /\ (stmt.type \in {"Assignment", "Increment", "Decrement"}
                    /\ stmt.name \notin DOMAIN variables) =>
                  /\ anState' = "err"
                  /\ anErr' = <<"Variable '", stmt.name, "' is not declared">>
            /\ \A e \in EvaluatedBy(variables, stmt) :
                  (IsExpression(e) /\ Identifiers(e) \ DOMAIN variables # {}) =>
                      /\ anState' = "err"
                      /\ \E n \in Identifiers(e) \ DOMAIN variables :
                            anErr' = <<"Variable '", n, "' is not declared">>

\* C6: a LetDeclaration of a declared name fails with "Variable '<name>' is
\* already declared", before its value is evaluated; an Assignment, Increment
\* or Decrement of an undeclared name, or the evaluation of an undeclared
\* Identifier, fails with "Variable '<name>' is not declared"; a failing
\* statement leaves every binding of the symbol table as it was.
C6_SemanticErrorsLeaveTable == [][C6_Step]_vars

\* a redeclaration whose value reads an undeclared name has failed as a
\* redeclaration, with the table as it was
C6_Witness ==
    /\ anState = "err" /\ anIdx = 1
    /\ statements[2] = LetDeclarationNode(<<"x">>, Y)
    /\ anErr = <<"Variable '", <<"x">>, "' is already declared">>
    /\ DOMAIN variables = {<<"x">>} /\ variables[<<"x">>] = F(5)

C7_Step ==
    anVars' # anVars =>
        /\ parseState = "ok" /\ anState = "run"
        /\ IF anIdx = Len(statements)
           THEN anState' = "ok" /\ UNCHANGED <<variables, output, anIdx>>
           ELSE LET stmt == statements[anIdx + 1]
                IN  IF analyze(variables, stmt).st = "ok"
                    THEN /\ anState' = "run" /\ anIdx' = anIdx + 1
                         /\ output' =
                              IF stmt.type = "Print"
                              THEN Append(output,
                                          evaluate_expression(variables, stmt.expr).val)
                              ELSE output
                    ELSE /\ anState' = "err"
                         /\ UNCHANGED <<variables, output, anIdx>>

\* the number of Print statements among the first k statements
PrintsAmong(stmts, k) == Cardinality({i \in 1..k : stmts[i].type = "Print"})

C7_State ==
    /\ Len(output) = PrintsAmong(statements, anIdx)
    /\ anState = "ok" => anIdx = Len(statements)
    /\ (anState # "run" /\ statements =
            <<LetDeclarationNode(<<"x">>, NumberNode(F(5))), PrintNode(Y)>>) =>
          /\ anState = "err" /\ output = <<>>
          /\ anErr = <<"Variable '", <<"y">>, "' is not declared">>

\* C7: the analyzer takes the statements in program order and stops at the
\* first failing one: the printed values are the values of the Print
\* statements before it, in order, and nothing changes after it; `let x = 5`
\* then `print y` fails with a not-declared error for y and prints nothing.
C7_InOrderStopAtFirstFailure == [][C7_Step]_vars /\ []C7_State

\* `let x = 5`, `print y` has failed at the print, with no output
C7_Witness ==
    /\ statements = <<LetDeclarationNode(<<"x">>, NumberNode(F(5))), PrintNode(Y)>>
    /\ anState = "err" /\ anIdx = 1 /\ output = <<>>
    /\ variables[<<"x">>] = F(5)

\* the statement that starts at cur is an identifier followed by ++ or --, and
\* the token after it does not continue the expression
IncDecStatementAt(toks, cur) ==
    /\ cur + 3 <= Len(toks)
    /\ toks[cur + 1].kind = "Identifier" /\ toks[cur + 1].value.tag = "String"
    /\ toks[cur + 2].kind \in {"Increment", "Decrement"}
    /\ toks[cur + 3].kind \notin {"Plus", "Minus", "Multiply", "Divide", "Increment"}

\* v + k for a finite v
Plus(v, k) == <<v[1] + k * v[2], v[2]>>

C8_Step ==
    /\ (lexState = "done" /\ parseState = "run" /\ parseVars' # parseVars
            /\ IncDecStatementAt(tokens, current)) =>
          /\ parseState' = "run" /\ current' = current + 2
          /\ statements' =
               Append(statements,
                      [type |-> tokens[current + 2].kind,
                       name |-> tokens[current + 1].value.str])
    /\ (AnalyzerTakesStatement
            /\ statements[anIdx + 1].type \in {"Increment", "Decrement"}
            /\ statements[anIdx + 1].name \in DOMAIN variables) =>
          LET name == statements[anIdx + 1].name
              k == IF statements[anIdx + 1].type = "Increment" THEN 1 ELSE -1
          IN  /\ anState' = "run" /\ output' = output
              /\ DOMAIN variables' = DOMAIN variables
              /\ variables'[name] = Plus(variables[name], k)
              /\ \A n \in DOMAIN variables \ {name} : variables'[n] = variables[n]

IncDecScenario(kind) ==
    LetTokens(<<"x">>, 5) \o <<TIdent(<<"x">>), T(kind)>>
        \o <<T("Print"), TIdent(<<"x">>), T("Eof")>>

C8_State ==
    /\ (tokens = IncDecScenario("Increment") /\ parseState # "run"
            /\ (parseState = "ok" => anState # "run")) =>
          parseState = "ok" /\ anState = "ok" /\ output = <<F(6)>>
    /\ (tokens = IncDecScenario("Decrement") /\ parseState # "run"
            /\ (parseState = "ok" => anState # "run")) =>
          parseState = "ok" /\ anState = "ok" /\ output = <<F(4)>>

\* C8: a statement that is an identifier followed by `++` (`--`) is parsed into
\* Increment(name) (Decrement(name)); analyzing it for a declared name changes
\* that variable by +1 (-1) and no other binding nor the set of names; `let x =
\* 5`, `x++`, `print x` prints 6 and with `x--` it prints 4.
C8_IncrementDecrement == [][C8_Step]_vars /\ []C8_State

\* `let x = 5`, `let y = 2`, `x++` has been analyzed: x is 6 and y still 2
C8_Witness ==
    /\ parseState = "ok" /\ anIdx = 3
    /\ statements[3] = IncrementNode(<<"x">>)
    /\ DOMAIN variables = Names
    /\ variables[<<"x">>] = F(6) /\ variables[<<"y">>] = F(2)

OnlyLetAssignPrint(stmts) ==
    \A i \in 1..Len(stmts) : stmts[i].type \in {"LetDeclaration", "Assignment", "Print"}

\* the number of statements of the emitted text
StatementsOf(c) == Cardinality({i \in 1..Len(c) : c[i] = CSym(";")})

\* C9: for a Program of declarations, assignments and prints that the analyzer
\* accepts, running the text generate emits prints the values the analyzer
\* printed, in the same order, one emitted statement per statement.
C9_AnalyzerAgreesWithGeneratedC ==
    (anState = "ok" /\ full_code # <<>> /\ OnlyLetAssignPrint(statements)) =>
        /\ ExecC(full_code) = CDone("ok", output)
        /\ StatementsOf(full_code) = Len(statements) + 1

\* C11: no Program that parse returns for a token sequence makes analyze fail
\* with "Unexpected AST node".
C11_NoUnexpectedNodeFromParser ==
    (lexState = "done" /\ tokens # <<>> /\ parseState = "ok") => anErr # UnexpectedNode

\* the lexer returned a Number token whose text did not parse as a float
HasInvalidNumber(toks) ==
    \E i \in 1..Len(toks) : toks[i].kind = "Number" /\ toks[i].value = TVNone

\* C12: a Number token with value none (a literal with two dots, or one with
\* skipped characters in its span) makes neither the lexer nor the parsing of
\* the token sequence fail: parse never returns the error "Expected number".
C12_LexicalAnomaliesNotFatal ==
    (lexState = "done" /\ HasInvalidNumber(tokens)) =>
        ~(parseState = "err" /\ parseErr = "Expected number")

\* the last quote of src opens a string that nothing closes: no token but a
\* String consumes a quote, so the quotes open and close by turns
Unterminated(src) == Cardinality({i \in 1..Len(src) : src[i] = "\""}) % 2 = 1

\* C13: on a source whose last `"` has no closing `"` the lexer does not abort
\* and yields a String token whose span runs to the end of the input,
\* followed by the Eof token.
C13_UnterminatedStringToEnd ==
    Unterminated(source) =>
        /\ lexState # "panic"
        /\ lexState = "done" =>
              /\ Len(tokens) >= 2
              /\ tokens[Len(tokens) - 1].kind = "String"
              /\ tokens[Len(tokens) - 1].end = Len(source)
              /\ tokens[Len(tokens)].kind = "Eof"

\* the statement that starts at cur is an Identifier, which declaration
\* consumes, then an expression of one token of the given kind, then two Minus
\* tokens
MinusMinusAfter(toks, cur, kind) ==
    /\ cur + 5 <= Len(toks)
    /\ toks[cur + 1].kind = "Identifier"
    /\ toks[cur + 2].kind = kind
    /\ toks[cur + 2].value.tag = (IF kind = "Identifier" THEN "String" ELSE "Number")
    /\ toks[cur + 3].kind = "Minus" /\ toks[cur + 4].kind = "Minus"

C15_Step ==
    (lexState = "done" /\ parseState = "run" /\ parseVars' # parseVars) =>
        /\ MinusMinusAfter(tokens, current, "Identifier") =>
              /\ parseState' = "run" /\ current' = current + 4
              /\ statements' =
                   Append(statements, DecrementNode(tokens[current + 2].value.str))
        /\ MinusMinusAfter(tokens, current, "Number") =>
              /\ parseState' = "err"
              /\ parseErr' = "Expected identifier before '--'"

\* C15: in expression_statement an expression that is a bare Identifier and is
\* followed by two Minus tokens becomes Decrement(name), both Minus tokens
\* consumed; an expression of another shape followed by two Minus tokens
\* gives the error "Expected identifier before '--'".
C15_MinusMinusIsDecrement == [][C15_Step]_vars

\* C14: every analyze call on a Program starts from an empty symbol table,
\* also a further call on the same SemanticAnalyzer value, and a Program that
\* was accepted gives the same result and the same output when it is analyzed
\* again.
C14_EveryPassFromEmptyTable ==
    /\ (anState = "run" /\ anIdx = 0) => variables = <<>>
    /\ (anState # "run" /\ passes # <<>> /\ passes[1].state = "ok") =>
          anState = "ok" /\ output = passes[1].output

====
